---- MODULE Spec2Model ----
(***************************************************************************)
(* FedBotAppeal: the appeal lifecycle of src/fedbot.py as a state machine. *)
(*                                                                         *)
(* The dispatcher of python-telegram-bot runs one handler at a time        *)
(* (no handler is registered with run_async), so every handler is one      *)
(* atomic action.  Each Bot API call (reply_text, send_message,            *)
(* edit_message_text, answer) may raise TelegramError and each store call  *)
(* may raise PyMongoError; both are inputs of the actions.                 *)
(*                                                                         *)
(* The model starts after main() has registered the handlers, with the     *)
(* store connected.  The `appeals' collection is persistent storage that   *)
(* the program opens but does not create, so the documents it holds at     *)
(* start are given: documents of earlier runs (ObjectId keys, as           *)
(* insert_one generates them) and documents written by other tools         *)
(* (string keys).                                                          *)
(***************************************************************************)
EXTENDS Integers, Sequences, FiniteSets, TLC

VARIABLES appeals, user_appeals, user_data, last

vars == <<appeals, user_appeals, user_data, last>>

(* ------------------------------ bounds -------------------------------- *)
MaxNew == 2          \* documents inserted during one run
NumStored == 51      \* documents of the large initial store

(* ------------------------- program constants -------------------------- *)
ADMIN_ID == 1
PendingLimit == 50

Users == {1, 2}
Submitters == {2}
CallbackData == {"unban", "admin", "other"}
ValidTypes_Any == CallbackData
ValidTypes == {"unban", "admin"}
Texts == {"", "please"}
StringKeys == {1, 2}     \* stored documents whose _id is a string

(* ------------------------------- ids ---------------------------------- *)
\* BSON values used as _id and as command arguments.  t is the BSON type;
\* a string is either the 24-digit hex rendering of an ObjectId (k = "hex")
\* or some other text (k = "text").
ObjectId(n) == [t |-> "ObjectId", k |-> "raw", n |-> n]
HexStr(n) == [t |-> "str", k |-> "hex", n |-> n]
TextStr(n) == [t |-> "str", k |-> "text", n |-> n]
NoId == [t |-> "none", k |-> "none", n |-> 0]

\* str(result.inserted_id)
Str(id) == IF id.t = "ObjectId" THEN HexStr(id.n) ELSE id

\* user.username or f"{first_name or ''} {last_name or ''}".strip()
Profile(u) ==
  CASE u = 1 -> [username |-> "root", first_name |-> "Ann", last_name |-> ""]
    [] u = 2 -> [username |-> "", first_name |-> "Bo", last_name |-> "Li"]
    [] OTHER -> [username |-> "", first_name |-> "", last_name |-> "Cy"]

Strip(first_name, last_name) ==
  IF first_name = "" THEN last_name
  ELSE IF last_name = "" THEN first_name
  ELSE first_name \o " " \o last_name

Username(u) ==
  IF Profile(u).username # "" THEN Profile(u).username
  ELSE Strip(Profile(u).first_name, Profile(u).last_name)

(* ------------------------------ store --------------------------------- *)
AppealData(id, u, type, text, t) ==
  [_id |-> id, user_id |-> u, username |-> Username(u), appeal_type |-> type,
   appeal_text |-> text, status |-> "pending", created_at |-> t, timestamp |-> t]

\* A document present when the bot starts: those of StringKeys have string
\* keys, the others the ObjectId keys insert_one gave them in earlier runs.
StoredDoc(i) ==
  AppealData(IF i \in StringKeys THEN TextStr(i) ELSE ObjectId(i),
             2 + (i % 2), IF i % 2 = 0 THEN "unban" ELSE "admin", "old", i)

Stored(n) == [i \in 1..n |-> StoredDoc(i)]

SetMax(S) == IF S = {} THEN 0 ELSE CHOOSE x \in S : \A y \in S : y <= x

NewObjectId_Reuse(coll) ==
  ObjectId(SetMax({coll[i]._id.n : i \in DOMAIN coll}))

\* The ObjectId insert_one generates: distinct from every stored key.
NewObjectId(coll) ==
  ObjectId(1 + SetMax({coll[i]._id.n : i \in DOMAIN coll}))

\* datetime.utcnow(): later than the creation of every earlier document
\* (the stored ones were created at 1..NumStored).
UtcNow(coll) == 1 + SetMax({NumStored} \cup {coll[i].created_at : i \in DOMAIN coll})

\* Documents inserted during this run (the stored ones are older).
Inserted == {i \in DOMAIN appeals : appeals[i].created_at > NumStored}

\* The documents a filter matches: equality of every field of the query,
\* BSON equality being equality of type and value.
Matching(coll, query) ==
  {i \in DOMAIN coll : \A f \in DOMAIN query : coll[i][f] = query[f]}

\* find_one / find_one_and_update act on the first match in store order.
First(S) == CHOOSE i \in S : \A j \in S : i <= j

\* find(filter): the matching documents in store order.
Find(coll, query) ==
  SelectSeq(coll, LAMBDA doc : \A f \in DOMAIN query : doc[f] = query[f])

SortCreatedDesc_Asc(docs) ==
  SortSeq(docs, LAMBDA a, b : a.created_at < b.created_at)

\* sort("created_at", -1): newest first.
SortCreatedDesc(docs) ==
  SortSeq(docs, LAMBDA a, b : a.created_at > b.created_at)

Limit_All(docs, n) == docs

\* limit(n)
Limit(docs, n) == IF Len(docs) <= n THEN docs ELSE SubSeq(docs, 1, n)

\* find(filter).sort("created_at", -1).limit(n)
FindSortLimit(coll, query, n) == Limit(SortCreatedDesc(Find(coll, query)), n)

(* ----------------------------- messages ------------------------------- *)
Send(to, kind, id) == [to |-> to, kind |-> kind, id |-> id, ok |-> TRUE]

\* The Bot API calls of a handler's main path, in order; fail is the
\* position of the first call that raises TelegramError (0: none does).
\* Calls after the failing one are not made.
Attempted(plan, fail) ==
  IF fail \in 1..Len(plan)
  THEN [i \in 1..fail |-> [plan[i] EXCEPT !.ok = (i # fail)]]
  ELSE plan

\* What the last update led to: the kind of update, who sent it, the text of
\* a text message, the appeal id the handler worked on, the Bot API calls it
\* made and the documents it read.
Event(op, caller, text, arg, out, list) ==
  [op |-> op, caller |-> caller, text |-> text, arg |-> arg, out |-> out,
   list |-> list]

Result(op, caller, arg, out, list) == Event(op, caller, "", arg, out, list)

NoDraft == [expecting_appeal_text |-> "absent", appeal_type |-> "absent"]

(* ------------------------------- Init --------------------------------- *)
InitWith(coll) ==
  /\ appeals = coll
  /\ user_appeals = [u \in Users |-> "absent"]
  /\ user_data = [u \in Users |-> NoDraft]
  /\ last = Result("start", 0, NoId, <<>>, <<>>)

Init == InitWith(Stored(Cardinality(StringKeys)))

InitBig == InitWith(Stored(NumStored))

(* --------------------------- user handlers ---------------------------- *)
\* handle_appeal_type: callback query with data d from user u.
\* Calls: 1 query.answer(), 2 query.edit_message_text(...).
handle_appeal_type(u, d) ==
  \E fail \in 0..2 :
    LET valid == d \in ValidTypes
        plan == <<Send(u, "answer", NoId),
                  Send(u, IF valid THEN "prompt" ELSE "invalid_type", NoId)>>
        stored == valid /\ fail # 1
        flagged == valid /\ fail = 0
    IN /\ user_appeals' = IF stored THEN [user_appeals EXCEPT ![u] = d]
                          ELSE user_appeals
       /\ user_data' = IF flagged
                       THEN [user_data EXCEPT ![u] =
                               [expecting_appeal_text |-> "True",
                                appeal_type |-> d]]
                       ELSE user_data
       /\ last' = Result("appeal_type", u, NoId, Attempted(plan, fail), <<>>)
       /\ UNCHANGED appeals

FiltersText_Any(text) == TRUE

\* Filters.text & ~Filters.command: the message has a non-empty text that
\* is not a command (the texts of the model are not commands).
FiltersText(text) == text # ""

Expecting_Always(data, u) == TRUE

\* context.user_data.get('expecting_appeal_text')
Expecting(data, u) == data[u].expecting_appeal_text = "True"

InsertFailed_ClearsDraft(u, text) ==
  /\ last' = Event("text", u, text, NoId, <<Send(u, "db_error", NoId)>>, <<>>)
  /\ user_data' = [user_data EXCEPT ![u] = NoDraft]
  /\ user_appeals' = [user_appeals EXCEPT ![u] = "absent"]
  /\ UNCHANGED appeals

\* insert_one raises PyMongoError: the error is logged and the user told;
\* nothing is stored and the draft is not touched.
InsertFailed(u, text) ==
  /\ last' = Event("text", u, text, NoId, <<Send(u, "db_error", NoId)>>, <<>>)
  /\ UNCHANGED <<appeals, user_appeals, user_data>>

\* A text message from user u.  The dispatcher hands it to
\* handle_appeal_text only when the filter accepts it, and the handler
\* returns at once unless user_data has expecting_appeal_text.
\* Calls: 1 reply_text(submitted), 2 send_message(ADMIN_ID, new appeal);
\* on PyMongoError: 1 reply_text(database error).
handle_appeal_text(u, text) ==
  LET expecting == Expecting(user_data, u)
      appeal_type == user_data[u].appeal_type
      id == NewObjectId(appeals)
      appeal_data == AppealData(id, u, appeal_type, text, UtcNow(appeals))
      appeal_id == Str(id)
      plan == <<Send(u, "submitted", appeal_id),
                Send(ADMIN_ID, "new_appeal", appeal_id)>>
  IN IF ~FiltersText(text) \/ ~expecting
     THEN /\ last' = Event("text", u, text, NoId, <<>>, <<>>)
          /\ UNCHANGED <<appeals, user_appeals, user_data>>
     ELSE \/ InsertFailed(u, text)
          \/ \E fail \in 0..2 :
               /\ Cardinality(Inserted) < MaxNew
               /\ appeals' = Append(appeals, appeal_data)
               /\ last' = Event("text", u, text, appeal_id,
                                Attempted(plan, fail), <<appeal_data>>)
               /\ IF fail = 1
                  THEN UNCHANGED <<user_appeals, user_data>>
                  ELSE /\ user_data' = [user_data EXCEPT ![u] = NoDraft]
                       /\ user_appeals' = [user_appeals EXCEPT ![u] = "absent"]

(* --------------------------- admin handlers --------------------------- *)
NoArgs == <<>>

IsAdmin_Any(caller) == TRUE

\* update.effective_user.id != Config.ADMIN_ID, negated
IsAdmin(caller) == caller = ADMIN_ID

\* The short ways out of an admin command: one reply, nothing else.  A
\* TelegramError raised by a handler's only Bot API call is caught by the
\* outer except and logged; the handler does nothing after it either way,
\* so a lone reply is recorded as the call made.
Denied(op, caller) ==
  /\ last' = Result(op, caller, NoId, <<Send(caller, "denied", NoId)>>, <<>>)
  /\ UNCHANGED <<appeals, user_appeals, user_data>>

Usage(op, caller) ==
  /\ last' = Result(op, caller, NoId, <<Send(caller, "usage", NoId)>>, <<>>)
  /\ UNCHANGED <<appeals, user_appeals, user_data>>

DatabaseError(op, caller, arg) ==
  /\ last' = Result(op, caller, arg, <<Send(caller, "db_error", NoId)>>, <<>>)
  /\ UNCHANGED <<appeals, user_appeals, user_data>>

\* pending: list(find({"status": "pending"}).sort("created_at", -1).limit(50)).
\* The replies carry the listing, cut into pieces of 4096 characters; the
\* model records one reply and the documents read.
pending(caller) ==
  IF ~IsAdmin(caller) THEN Denied("pending", caller)
  ELSE \/ DatabaseError("pending", caller, NoId)
       \/ LET found == FindSortLimit(appeals, [status |-> "pending"],
                                     PendingLimit)
              kind == IF found = <<>> THEN "no_pending" ELSE "pending_list"
          IN /\ last' = Result("pending", caller, NoId,
                              <<Send(caller, kind, NoId)>>, found)
             /\ UNCHANGED <<appeals, user_appeals, user_data>>

\* view_appeal: find_one({"_id": appeal_id}) with the argument string.
view_appeal(caller, args) ==
  IF ~IsAdmin(caller) THEN Denied("view", caller)
  ELSE IF args = NoArgs THEN Usage("view", caller)
  ELSE LET appeal_id == args[1]
           S == Matching(appeals, [_id |-> appeal_id])
       IN \/ DatabaseError("view", caller, appeal_id)
          \/ /\ last' = Result("view", caller, appeal_id,
                            <<Send(caller, IF S = {} THEN "not_found"
                                           ELSE "detail", appeal_id)>>,
                            IF S = {} THEN <<>> ELSE <<appeals[First(S)]>>)
             /\ UNCHANGED <<appeals, user_appeals, user_data>>

FindOneAndUpdate_Many(coll, query, status) ==
  IF Matching(coll, query) = {} THEN coll
  ELSE [i \in DOMAIN coll |->
          IF coll[i].status = "pending" THEN [coll[i] EXCEPT !.status = status]
          ELSE coll[i]]

FindOneAndUpdate_Upsert(coll, query, status) ==
  LET S == Matching(coll, query)
  IN IF S = {}
     THEN Append(coll, [AppealData(query._id, 0, "unban", "", 0)
                          EXCEPT !.status = status])
     ELSE [coll EXCEPT ![First(S)].status = status]

\* find_one_and_update({"_id": appeal_id, "status": "pending"},
\*                     {"$set": {"status": status}}): the collection after it.
FindOneAndUpdate(coll, query, status) ==
  LET S == Matching(coll, query)
  IN IF S = {} THEN coll
     ELSE [coll EXCEPT ![First(S)].status = status]

PendingQuery_AnyStatus(appeal_id) == [_id |-> appeal_id]

\* {"_id": appeal_id, "status": "pending"}
PendingQuery(appeal_id) == [_id |-> appeal_id, status |-> "pending"]

Calls_NoReport(done, notice, report, fail) ==
  CASE fail = 0 -> <<done, notice>>
    [] fail = 1 -> Attempted(<<done>>, 1)
    [] OTHER -> Attempted(<<done, notice>>, 2)

\* The Bot API calls after a match: 1 reply_text(done),
\* 2 send_message(appeal['user_id'], ...), and when call 2 raises,
\* 3 reply_text(failed to notify); fail = 3 is calls 2 and 3 both raising.
Calls(done, notice, report, fail) ==
  CASE fail = 0 -> <<done, notice>>
    [] fail = 1 -> Attempted(<<done>>, 1)
    [] fail = 2 -> Attempted(<<done, notice>>, 2) \o <<report>>
    [] OTHER -> Attempted(<<done, notice>>, 2) \o Attempted(<<report>>, 1)

\* approve and reject: the same handler up to the new status and the
\* messages.
Decide(op, status, caller, args) ==
  IF ~IsAdmin(caller) THEN Denied(op, caller)
  ELSE IF args = NoArgs THEN Usage(op, caller)
  ELSE LET appeal_id == args[1]
           query == PendingQuery(appeal_id)
           S == Matching(appeals, query)
       IN \/ DatabaseError(op, caller, appeal_id)
          \/ /\ S = {}
             /\ appeals' = FindOneAndUpdate(appeals, query, status)
             /\ last' = Result(op, caller, appeal_id,
                               <<Send(caller, "not_found", appeal_id)>>, <<>>)
             /\ UNCHANGED <<user_appeals, user_data>>
          \/ /\ S # {}
             /\ appeals' = FindOneAndUpdate(appeals, query, status)
             /\ \E fail \in 0..3 :
                  LET appeal == appeals'[First(S)]
                      done == Send(caller, status, appeal_id)
                      notice == Send(appeal.user_id, "your_appeal_" \o status,
                                     appeal_id)
                      report == Send(caller, "notify_failed", NoId)
                  IN last' = Result(op, caller, appeal_id,
                                    Calls(done, notice, report, fail),
                                    <<appeal>>)
             /\ UNCHANGED <<user_appeals, user_data>>

approve(caller, args) == Decide("approve", "approved", caller, args)

reject(caller, args) == Decide("reject", "rejected", caller, args)

\* count_documents(filter)
CountDocuments(coll, query) == Cardinality(Matching(coll, query))

\* total, pending, approved, rejected as stats computes them
Counts(coll) ==
  [total |-> CountDocuments(coll, <<>>),
   pending |-> CountDocuments(coll, [status |-> "pending"]),
   approved |-> CountDocuments(coll, [status |-> "approved"]),
   rejected |-> CountDocuments(coll, [status |-> "rejected"])]

\* The module imports datetime only: the name timedelta is not defined.
TimedeltaDefined == FALSE

\* stats: the four counts and the aggregate are read, then the expression
\* timedelta(days=1) is evaluated.  With timedelta undefined it raises
\* NameError, which neither except clause of the handler catches: the
\* dispatcher logs it through error_handler and no reply is sent.
stats(caller) ==
  IF ~IsAdmin(caller) THEN Denied("stats", caller)
  ELSE \/ DatabaseError("stats", caller, NoId)
       \/ /\ last' = IF TimedeltaDefined
                      THEN Result("stats", caller, NoId,
                                  <<Send(caller, "stats", NoId)>>,
                                  <<Counts(appeals)>>)
                      ELSE Result("stats", caller, NoId, <<>>, <<>>)
          /\ UNCHANGED <<appeals, user_appeals, user_data>>

(* ------------------------------- Next --------------------------------- *)
\* The argument strings an administrator may type: the keys of the string
\* documents, the ids the bot reports for the documents it inserts, and a
\* string that is no document's id.
ArgsOf(first) ==
  {NoArgs, <<TextStr(0)>>} \cup {<<TextStr(i)>> : i \in StringKeys}
    \cup {<<HexStr(first + 1)>>}

Next ==
  \/ \E u \in Submitters, d \in CallbackData : handle_appeal_type(u, d)
  \/ \E u \in Users, text \in Texts : handle_appeal_text(u, text)
  \/ \E caller \in Users : pending(caller)
  \/ \E caller \in Users, args \in ArgsOf(Cardinality(StringKeys)) : view_appeal(caller, args)
  \/ \E caller \in Users, args \in ArgsOf(Cardinality(StringKeys)) : approve(caller, args)
  \/ \E caller \in Users, args \in ArgsOf(Cardinality(StringKeys)) : reject(caller, args)
  \/ \E caller \in Users : stats(caller)

Spec == Init /\ [][Next]_vars

\* The same handlers over the large store.
NextBig ==
  \/ \E u \in Submitters : handle_appeal_type(u, "unban")
  \/ \E u \in Submitters : handle_appeal_text(u, "please")
  \/ pending(ADMIN_ID)
  \/ \E args \in ArgsOf(NumStored) : approve(ADMIN_ID, args)
  \/ \E args \in ArgsOf(NumStored) : reject(ADMIN_ID, args)

SpecBig == InitBig /\ [][NextBig]_vars

(* ----------------------------- properties ----------------------------- *)
DecisionOps == {"approve", "reject"}

Target(op) == IF op = "approve" THEN "approved" ELSE "rejected"

\* The first Bot API call of the handler was the message `kind'.
Reported(r, kind) == r.out # <<>> /\ r.out[1].kind = kind

\* An approve or reject of the administrator that got as far as the store.
AdminDecides(r) ==
  r.op \in DecisionOps /\ r.caller = ADMIN_ID /\ r.arg # NoId

Notices == {"your_appeal_approved", "your_appeal_rejected"}

NotifyFailed(r) == \E k \in DOMAIN r.out : r.out[k].kind \in Notices /\ ~r.out[k].ok

Pending(coll) == {i \in DOMAIN coll : coll[i].status = "pending"}

\* C1: of the approve/reject calls made for the id of a stored appeal, the
\* one that finds it pending makes the transition and reports success, and
\* one that finds it already decided reports not found and changes nothing
\* (calls answered by the store).
C1_ExactlyOneWins ==
  [][\A i \in DOMAIN appeals :
       (/\ AdminDecides(last')
        /\ last'.arg = Str(appeals[i]._id)
        /\ ~Reported(last', "db_error"))
       => IF appeals[i].status = "pending"
          THEN /\ Reported(last', Target(last'.op))
               /\ appeals'[i].status = Target(last'.op)
          ELSE /\ Reported(last', "not_found")
               /\ appeals' = appeals]_vars

Submits(r, data) ==
  r.op = "text" /\ r.text # "" /\ data[r.caller].expecting_appeal_text = "True"

\* The step appended exactly one pending record and reported its id, which
\* no record stored before has.
CreatesOne(old, new, r) ==
  /\ Len(new) = Len(old) + 1
  /\ SubSeq(new, 1, Len(old)) = old
  /\ new[Len(new)].status = "pending"
  /\ Reported(r, "submitted")
  /\ r.out[1].to = r.caller
  /\ r.out[1].id = Str(new[Len(new)]._id)
  /\ \A i \in DOMAIN old : Str(old[i]._id) # r.out[1].id
                           /\ old[i]._id # new[Len(new)]._id

\* C3 as stated: every text message of a user with a draft creates exactly
\* one pending record and reports an id no earlier record has.
C3_EverySubmissionCreates ==
  [][Submits(last', user_data) => CreatesOne(appeals, appeals', last')]_vars

\* C3 amended: a text message of a user with a draft creates exactly one
\* pending record and reports an id no earlier record has, unless the
\* insert fails with a storage error: then no record is created and the
\* user is told of a database error.
C3_SubmissionCreatesOne ==
  [][Submits(last', user_data)
       => \/ CreatesOne(appeals, appeals', last')
          \/ Reported(last', "db_error") /\ appeals' = appeals]_vars

\* A second submission of this run was stored and its id reported.
C3_Witness ==
  /\ last.op = "text"
  /\ Reported(last, "submitted")
  /\ Cardinality(Inserted) >= 2

\* C4: approve (reject) by the administrator with the id reported for a
\* submitted appeal that is still pending succeeds and leaves the status
\* approved (rejected) (calls answered by the store).
C4_DecideReportedId ==
  [][\A i \in Inserted :
       (/\ AdminDecides(last')
        /\ last'.arg = Str(appeals[i]._id)
        /\ appeals[i].status = "pending"
        /\ ~Reported(last', "db_error"))
       => /\ appeals'[i].status = Target(last'.op)
          /\ Reported(last', Target(last'.op))]_vars

\* C5: approve, reject, pending and view from a caller who is not the
\* administrator change no record and make one Bot API call, the denial
\* sent to the caller.
C5_NonAdminDenied ==
  [][(/\ last'.op \in {"approve", "reject", "pending", "view"}
      /\ last'.caller # ADMIN_ID)
     => /\ appeals' = appeals
        /\ Len(last'.out) = 1
        /\ last'.out[1].kind = "denied"
        /\ last'.out[1].to = last'.caller
        /\ last'.list = <<>>]_vars

\* A caller who is not the administrator was denied a reject while an
\* appeal with a string key was pending.
C5_Witness ==
  /\ last.op = "reject"
  /\ last.caller # ADMIN_ID
  /\ Reported(last, "denied")
  /\ \E i \in Pending(appeals) : appeals[i]._id.t = "str"

\* C6: the documents the pending command reads are stored, have status
\* pending and are at most PendingLimit.
C6_ListPendingBounded ==
  (last.op = "pending" /\ last.caller = ADMIN_ID)
    => /\ Len(last.list) <= PendingLimit
       /\ \A k \in DOMAIN last.list :
            /\ last.list[k].status = "pending"
            /\ \E i \in DOMAIN appeals : appeals[i] = last.list[k]

\* The listing was cut at the limit while more appeals were pending and
\* some stored appeal was decided.
C6_Witness ==
  /\ last.op = "pending"
  /\ Len(last.list) = PendingLimit
  /\ Cardinality(Pending(appeals)) > PendingLimit
  /\ Pending(appeals) # DOMAIN appeals

C10_SubmissionNotifiesAdmin ==
  [][Len(appeals') > Len(appeals)
     => \E k \in DOMAIN last'.out :
          /\ last'.out[k].kind = "new_appeal"
          /\ last'.out[k].to = ADMIN_ID
          /\ last'.out[k].id = Str(appeals'[Len(appeals')]._id)]_vars

\* C11: stats from the administrator replies with total, pending, approved
\* and rejected counts equal to the numbers of stored appeals (calls
\* answered by the store).
C11_StatsReportsCounts ==
  (last.op = "stats" /\ last.caller = ADMIN_ID /\ ~Reported(last, "db_error"))
    => /\ Reported(last, "stats")
       /\ last.list = <<Counts(appeals)>>

\* C12: the step that stores a submission clears the sender's draft, and a
\* text message that directly follows a stored submission of the same user
\* stores nothing.
C12_DraftClearedOnSubmit ==
  [][/\ Len(appeals') > Len(appeals)
          => user_data'[last'.caller] = NoDraft
     /\ (/\ last.op = "text"
         /\ Reported(last, "submitted")
         /\ last'.op = "text"
         /\ last'.caller = last.caller)
          => appeals' = appeals]_vars

\* C13: view from the administrator with the id reported for a stored
\* appeal replies with that appeal's stored fields (calls answered by the
\* store).
C13_ViewReportedId ==
  \A i \in DOMAIN appeals :
    (/\ last.op = "view"
     /\ last.caller = ADMIN_ID
     /\ last.arg = Str(appeals[i]._id)
     /\ ~Reported(last, "db_error"))
    => /\ Reported(last, "detail")
       /\ last.list = <<appeals[i]>>

NoPendingFor(coll, arg) ==
  \A i \in DOMAIN coll : Str(coll[i]._id) = arg => coll[i].status # "pending"

\* C15 as stated: approve or reject of the administrator for an id with no
\* pending appeal changes and creates no record and makes one Bot API call,
\* the not-found reply to the administrator.
C15_NoMatchOnlyNotFound ==
  [][(AdminDecides(last') /\ NoPendingFor(appeals, last'.arg))
     => /\ appeals' = appeals
        /\ last'.out = <<Send(ADMIN_ID, "not_found", last'.arg)>>]_vars

\* C15 amended: approve or reject of the administrator for an id with no
\* pending appeal changes and creates no record and makes one Bot API call,
\* a reply to the administrator: not found, or database error when the
\* store call fails.
C15_NoMatchNoEffect ==
  [][(AdminDecides(last') /\ NoPendingFor(appeals, last'.arg))
     => /\ appeals' = appeals
        /\ \/ last'.out = <<Send(ADMIN_ID, "not_found", last'.arg)>>
           \/ last'.out = <<Send(ADMIN_ID, "db_error", NoId)>>]_vars

\* The administrator was told not found for an id no stored appeal has.
C15_Witness ==
  /\ AdminDecides(last)
  /\ Reported(last, "not_found")
  /\ \A i \in DOMAIN appeals : Str(appeals[i]._id) # last.arg

\* C16: a step that stores a submission stores exactly one record, and its
\* type is the one the sender's latest selection put in the draft map.
C16_LatestTypeWins ==
  [][Len(appeals') > Len(appeals)
     => /\ Len(appeals') = Len(appeals) + 1
        /\ appeals'[Len(appeals')].appeal_type = user_appeals[last'.caller]]_vars

\* C17: the documents the pending command reads are in order of created_at,
\* newest first; no pending appeal left out is newer than one listed, and
\* none is left out while the listing is shorter than PendingLimit.
C17_NewestFirst ==
  (last.op = "pending" /\ Reported(last, "pending_list"))
    => /\ \A k, l \in DOMAIN last.list :
            k < l => last.list[k].created_at >= last.list[l].created_at
       /\ \A i \in Pending(appeals) :
            (\A k \in DOMAIN last.list : last.list[k] # appeals[i])
              => /\ Len(last.list) = PendingLimit
                 /\ \A k \in DOMAIN last.list :
                      appeals[i].created_at <= last.list[k].created_at

\* The listing starts with an appeal submitted in this run and leaves out
\* a pending appeal.
C17_Witness ==
  /\ last.op = "pending"
  /\ Len(last.list) = PendingLimit
  /\ last.list[1].created_at > NumStored
  /\ \E i \in Pending(appeals) :
       \A k \in DOMAIN last.list : last.list[k] # appeals[i]

\* C18: after every step every stored appeal and every draft has one of the
\* two valid types, and a selection answered with "invalid appeal type"
\* changes neither the drafts nor the store.
C18_OnlyValidTypes ==
  [][/\ \A i \in DOMAIN appeals' :
          appeals'[i].appeal_type \in {"unban", "admin"}
     /\ \A u \in Users :
          /\ user_data'[u].appeal_type \in {"unban", "admin", "absent"}
          /\ user_appeals'[u] \in {"unban", "admin", "absent"}
     /\ (/\ last'.op = "appeal_type"
         /\ \E k \in DOMAIN last'.out : last'.out[k].kind = "invalid_type")
          => UNCHANGED <<appeals, user_appeals, user_data>>]_vars

\* A user without a draft was told the type is invalid, after a submission
\* of this run was stored.
C18_Witness ==
  /\ last.op = "appeal_type"
  /\ \E k \in DOMAIN last.out : last.out[k].kind = "invalid_type"
  /\ user_data[last.caller] = NoDraft
  /\ user_appeals[last.caller] = "absent"
  /\ Inserted # {}

\* C19: a text message of a user with a draft is answered with the
\* confirmation or with the database error; the confirmation carries the id
\* of a record stored for that user; with the database error no record is
\* stored, the error reply to the user is the only Bot API call (the
\* administrator is not notified) and the draft is kept.
C19_NoSilentDrop ==
  [][last'.op = "text"
     => /\ Submits(last', user_data)
             => Reported(last', "submitted") \/ Reported(last', "db_error")
        /\ appeals' # appeals => Reported(last', "submitted")
        /\ Reported(last', "submitted")
             => \E i \in DOMAIN appeals' :
                  /\ Str(appeals'[i]._id) = last'.out[1].id
                  /\ appeals'[i].user_id = last'.caller
                  /\ last'.out[1].to = last'.caller
        /\ Reported(last', "db_error")
             => /\ appeals' = appeals
                /\ last'.out = <<Send(last'.caller, "db_error", NoId)>>
                /\ UNCHANGED <<user_appeals, user_data>>
                /\ user_data'[last'.caller].expecting_appeal_text = "True"]_vars

\* The insert of a submission failed and the sender still has the draft.
C19_Witness ==
  /\ last.op = "text"
  /\ Reported(last, "db_error")
  /\ user_data[last.caller].expecting_appeal_text = "True"
  /\ user_data[last.caller].appeal_type \in {"unban", "admin"}

\* C20: a text message of a user whose user_data holds no draft changes
\* neither the store nor the drafts and makes no Bot API call.
C20_NoDraftNoEffect ==
  [][(/\ last'.op = "text"
      /\ user_data[last'.caller].expecting_appeal_text # "True")
     => /\ UNCHANGED <<appeals, user_appeals, user_data>>
        /\ last'.out = <<>>]_vars

\* A user whose draft was cleared by a stored submission sent another text.
C20_Witness ==
  /\ last.op = "text"
  /\ last.text # ""
  /\ last.out = <<>>
  /\ user_data[last.caller] = NoDraft
  /\ \E i \in Inserted : appeals[i].user_id = last.caller

\* C21: in every state the two draft records of every user agree:
\* user_appeals has an entry for the user exactly when the user's user_data
\* has expecting_appeal_text, and both hold the same appeal type.
C21_DraftRecordsAgree ==
  \A u \in Users :
    /\ user_appeals[u] # "absent" <=> user_data[u].expecting_appeal_text = "True"
    /\ user_appeals[u] = user_data[u].appeal_type
====
